---- MODULE Spec2Model ----
(***************************************************************************)
(* A model of pychadwick's Chadwick class (src/pychadwick/pychadwick.py):  *)
(* the flag arrays of the native field tables, the library handle, the     *)
(* games() and process_game() generators and the record translation.       *)
(* The native library is the environment: every value a native call        *)
(* returns is drawn from a small set.                                      *)
(***************************************************************************)
EXTENDS Integers, Sequences, FiniteSets, TLC

VARIABLES
    cwevent_field_data,      \* native table: the header of each standard row
    cwevent_ext_field_data,  \* native table: the header of each extended row
    fields,                  \* native int array "fields" (one flag per standard row)
    ext_fields,              \* native int array "ext_fields"
    objs,                    \* the Chadwick instances constructed so far
    dll,                     \* self._dll of each instance
    loads,                   \* LoadLibrary calls made on behalf of each instance
    last,                    \* the last operation, its arguments and what it logged
    g_pc,                    \* games(): where the generator stands
    g_fh,                    \* games(): its local file_handle
    g_log,                   \* games(): the native calls made, in order
    g_out,                   \* games(): the game pointers yielded, in order
    g_res,                   \* games(): what the consumer's last request got
    g_op,                    \* games(): the consumer's last request
    p_pc,                    \* process_game(): where the generator stands
    p_game,                  \* process_game(): what the native call does at each event of game_ptr
    p_pos,                   \* process_game(): the event the iterator points at
    p_rosters,               \* process_game(): roster_visitor and roster_home
    p_warn,                  \* process_game(): warnings logged
    event_str,               \* process_game(): the contents of the shared buffer
    p_bufs,                  \* process_game(): the buffer as it stood after each event
    p_log,                   \* process_game(): the native calls made, in order
    p_out,                   \* process_game(): what was yielded, in order
    event_bytes,             \* dicticize_event_string(): its byte record
    d_headers,               \* dicticize_event_string(): its headers argument
    d_pc,                    \* dicticize_event_string(): "called" or "returned"
    d_result                 \* dicticize_event_string(): the mapping returned

fvars == <<cwevent_field_data, cwevent_ext_field_data, fields, ext_fields,
           objs, dll, loads, last>>

gvars == <<g_pc, g_fh, g_log, g_out, g_res, g_op>>

pvars == <<p_pc, p_game, p_pos, p_rosters, p_warn, event_str, p_bufs, p_log, p_out>>

dvars == <<event_bytes, d_headers, d_pc, d_result>>

vars == <<fvars, gvars, pvars, dvars>>

\* Model lengths of the two native tables (96 and 63 rows in the library).
MaxFields == 2
MaxExtFields == 2
\* The most games one file yields and the most events one game holds.
MaxGames == 2
MaxEvents == 2
\* The longest byte record and the longest explicit header list translated.
MaxBytes == 3
MaxHeaders == 2

None == "None"
Lib == "CDLL"
Instances == {"c1", "c2"}
\* Header names the tables may hold; "Z" is a name in neither table.
HeaderNames == {"A", "B"}
FieldNames == HeaderNames \cup {"Z"}
\* Flag values a caller may write; they are C ints, as the arrays' elements are.
FlagValues == {0, 1, 2}
\* Values the native library may have left in the arrays.
NativeFlags == {0, 1}

----------------------------------------------------------------------------
\* Python list helpers.

Contains(s, x) == \E i \in DOMAIN s : s[i] = x

indexLast(s, x) == CHOOSE i \in DOMAIN s : s[i] = x /\ \A j \in DOMAIN s : s[j] = x => j <= i

\* list.index: the first position holding x
index(s, x) == CHOOSE i \in DOMAIN s : s[i] = x /\ \A j \in 1..(i - 1) : s[j] # x

----------------------------------------------------------------------------
\* The header properties.

cwevent_headers == cwevent_field_data

cwevent_ext_headers == cwevent_ext_field_data

all_headers == cwevent_headers \o cwevent_ext_headers

\* the rows i of a table whose flag is 1, in table order
RECURSIVE Enabled1(_, _, _)
Enabled1(hs, fl, i) ==
    IF i > Len(hs) THEN <<>>
    ELSE (IF fl[i] = 1 THEN <<hs[i]>> ELSE <<>>) \o Enabled1(hs, fl, i + 1)

RECURSIVE EnabledNonZero(_, _, _)
EnabledNonZero(hs, fl, i) ==
    IF i > Len(hs) THEN <<>>
    ELSE (IF fl[i] # 0 THEN <<hs[i]>> ELSE <<>>) \o EnabledNonZero(hs, fl, i + 1)

active_headers_nonzero(f, e) ==
    EnabledNonZero(cwevent_headers, f, 1) \o EnabledNonZero(cwevent_ext_headers, e, 1)

active_headers(f, e) ==
    Enabled1(cwevent_headers, f, 1) \o Enabled1(cwevent_ext_headers, e, 1)

----------------------------------------------------------------------------
\* The library handle.

_load_shared_library(i, d, l) ==
    [dll |-> [d EXCEPT ![i] = Lib], loads |-> [l EXCEPT ![i] = @ + 1]]

libchadwick_reload(i, d, l) == _load_shared_library(i, d, l)

\* the libchadwick property: load only when no handle is held
libchadwick(i, d, l) ==
    IF d[i] = None THEN _load_shared_library(i, d, l) ELSE [dll |-> d, loads |-> l]

----------------------------------------------------------------------------
\* Setting flags.  f and e are the two flag arrays; the result holds the new
\* arrays and whether a warning was logged.

set_event_field_value_default(f, e, field_name, value) ==
    IF Contains(cwevent_headers, field_name)
    THEN [fields |-> [f EXCEPT ![index(cwevent_headers, field_name)] = value],
          ext_fields |-> e, warned |-> FALSE]
    ELSE IF Contains(cwevent_ext_headers, field_name)
    THEN [fields |-> f,
          ext_fields |-> [e EXCEPT ![index(cwevent_ext_headers, field_name)] = value],
          warned |-> FALSE]
    ELSE [fields |-> [f EXCEPT ![1] = value], ext_fields |-> e, warned |-> FALSE]

set_event_field_value(f, e, field_name, value) ==
    IF Contains(cwevent_headers, field_name)
    THEN [fields |-> [f EXCEPT ![index(cwevent_headers, field_name)] = value],
          ext_fields |-> e, warned |-> FALSE]
    ELSE IF Contains(cwevent_ext_headers, field_name)
    THEN [fields |-> f,
          ext_fields |-> [e EXCEPT ![index(cwevent_ext_headers, field_name)] = value],
          warned |-> FALSE]
    ELSE [fields |-> f, ext_fields |-> e, warned |-> TRUE]

set_event_field(f, e, field_name) == set_event_field_value(f, e, field_name, 1)

unset_event_field(f, e, field_name) == set_event_field_value(f, e, field_name, 0)

RECURSIVE SetEach(_, _, _)
SetEach(hs, f, e) ==
    IF hs = <<>> THEN [fields |-> f, ext_fields |-> e]
    ELSE LET r == set_event_field(f, e, Head(hs))
         IN  SetEach(Tail(hs), r.fields, r.ext_fields)

\* [self.set_event_field(field) for field in self.all_headers]
set_all_headers(f, e) == SetEach(all_headers, f, e)

----------------------------------------------------------------------------
\* The operations on the flag tables.

NoOp == [op |-> "none", obj |-> None, name |-> None, value |-> 0, warned |-> FALSE]

\* The process before any Chadwick object exists: the library's own tables.
FieldsInit ==
    /\ cwevent_field_data \in [1..MaxFields -> HeaderNames]
    /\ cwevent_ext_field_data \in [1..MaxExtFields -> HeaderNames]
    /\ fields \in [1..MaxFields -> NativeFlags]
    /\ ext_fields \in [1..MaxExtFields -> NativeFlags]
    /\ objs = {}
    /\ dll = [i \in Instances |-> None]
    /\ loads = [i \in Instances |-> 0]
    /\ last = NoOp

\* Chadwick(): __init__
Construct(i) ==
    /\ i \notin objs
    /\ LET h0 == _load_shared_library(i, [dll EXCEPT ![i] = None], loads)
           h1 == libchadwick(i, h0.dll, h0.loads)
           r  == set_all_headers(fields, ext_fields)
       IN  /\ dll' = h1.dll
           /\ loads' = h1.loads
           /\ fields' = r.fields
           /\ ext_fields' = r.ext_fields
    /\ objs' = objs \cup {i}
    /\ last' = [op |-> "init", obj |-> i, name |-> None, value |-> 1, warned |-> FALSE]
    /\ UNCHANGED <<cwevent_field_data, cwevent_ext_field_data, gvars, pvars, dvars>>

\* The effect of one of the three setters called on instance i.
Setter(i, op, field_name, value) ==
    /\ i \in objs
    /\ LET h == libchadwick(i, dll, loads)
           r == set_event_field_value(fields, ext_fields, field_name, value)
       IN  /\ dll' = h.dll
           /\ loads' = h.loads
           /\ fields' = r.fields
           /\ ext_fields' = r.ext_fields
           /\ last' = [op |-> op, obj |-> None, name |-> field_name, value |-> value,
                       warned |-> r.warned]
    /\ UNCHANGED <<cwevent_field_data, cwevent_ext_field_data, objs, gvars, pvars, dvars>>

SetEventField(i, field_name) == Setter(i, "set_event_field", field_name, 1)

UnsetEventField(i, field_name) == Setter(i, "unset_event_field", field_name, 0)

SetEventFieldValue(i, field_name, value) ==
    Setter(i, "set_event_field_value", field_name, value)

----------------------------------------------------------------------------
\* The generators before they are called.

GamesIdle ==
    /\ g_pc = "none"
    /\ g_fh = None
    /\ g_log = <<>>
    /\ g_out = <<>>
    /\ g_res = "none"
    /\ g_op = [kind |-> "none", at |-> "none"]

ProcessIdle ==
    /\ p_pc = "none"
    /\ p_game = <<>>
    /\ p_pos = 0
    /\ p_rosters = [visitor |-> None, home |-> None]
    /\ p_warn = 0
    /\ event_str = None
    /\ p_bufs = <<>>
    /\ p_log = <<>>
    /\ p_out = <<>>

DictIdle ==
    /\ event_bytes = <<>>
    /\ d_headers = [none |-> TRUE, list |-> <<>>]
    /\ d_pc = "none"
    /\ d_result = None

\* One instance, constructed over any tables and any flags the library held.
Init ==
    /\ cwevent_field_data \in [1..MaxFields -> HeaderNames]
    /\ cwevent_ext_field_data \in [1..MaxExtFields -> HeaderNames]
    /\ \E f \in [1..MaxFields -> NativeFlags], e \in [1..MaxExtFields -> NativeFlags] :
          /\ fields = set_all_headers(f, e).fields
          /\ ext_fields = set_all_headers(f, e).ext_fields
    /\ objs = {"c1"}
    /\ dll = [i \in Instances |-> IF i = "c1" THEN Lib ELSE None]
    /\ loads = [i \in Instances |-> IF i = "c1" THEN 1 ELSE 0]
    /\ last = [op |-> "init", obj |-> "c1", name |-> None, value |-> 1, warned |-> FALSE]
    /\ GamesIdle /\ ProcessIdle /\ DictIdle

Next ==
    \/ \E i \in Instances, n \in FieldNames : SetEventField(i, n)
    \/ \E i \in Instances, n \in FieldNames : UnsetEventField(i, n)
    \/ \E i \in Instances, n \in FieldNames, v \in FlagValues : SetEventFieldValue(i, n, v)

Spec == Init /\ [][Next]_vars

\* The process from before any instance exists: constructors, and setters
\* called on the instances there are.
InitObjects == FieldsInit /\ GamesIdle /\ ProcessIdle /\ DictIdle

NextObjects ==
    \/ \E i \in Instances : Construct(i)
    \/ \E i \in Instances, n \in FieldNames : SetEventField(i, n)
    \/ \E i \in Instances, n \in FieldNames : UnsetEventField(i, n)

SpecObjects == InitObjects /\ [][NextObjects]_vars

----------------------------------------------------------------------------
\* games(file_path).  A native call is logged as a record; what it returns is
\* the library's choice.

Handles == {"f1", "f2"}
\* what cw_game_read may return: a null pointer or a pointer to a game
GamePtrs == {"NULL", "game"}

Call(name, h, ret) == [call |-> name, h |-> h, ret |-> ret]

Reads(log) == Cardinality({i \in DOMAIN log : log[i].call = "cw_game_read"})

GamesExceptNoClose(log, h) == log

\* except: self.fclose(file_handle); return
GamesExcept(log, h) == Append(log, Call("fclose", h, "0"))

\* One pass of the while loop, from its test on, with the calls made so far.
GamesLoop(log, h) ==
    \/ /\ g_log' = Append(log, Call("feof", h, "1"))
       /\ g_pc' = "done"
       /\ g_res' = "StopIteration"
       /\ g_out' = g_out
    \/ /\ Reads(log) < MaxGames
       /\ \E r \in GamePtrs :
            /\ g_log' = log \o <<Call("feof", h, "0"), Call("cw_game_read", h, r)>>
            /\ g_out' = Append(g_out, r)
            /\ g_pc' = "suspended"
            /\ g_res' = "item"
    \/ /\ Reads(log) < MaxGames
       /\ g_log' = GamesExcept(log \o <<Call("feof", h, "0"), Call("cw_game_read", h, "raise")>>, h)
       /\ g_out' = g_out
       /\ g_pc' = "done"
       /\ g_res' = "StopIteration"

GamesCallEager ==
    /\ g_pc = "none"
    /\ g_pc' = "created"
    /\ g_op' = [kind |-> "games", at |-> g_pc]
    /\ g_log' = Append(g_log, Call("fopen", "f1", "f1"))
    /\ g_fh' = "f1"
    /\ UNCHANGED <<g_out, g_res, fvars, pvars, dvars>>

\* games(path): calling a generator function runs none of its body
GamesCall ==
    /\ g_pc = "none"
    /\ g_pc' = "created"
    /\ g_op' = [kind |-> "games", at |-> g_pc]
    /\ UNCHANGED <<g_fh, g_log, g_out, g_res, fvars, pvars, dvars>>

\* next(gen)
GamesNext ==
    /\ g_pc \in {"created", "suspended", "done"}
    /\ g_op' = [kind |-> "next", at |-> g_pc]
    /\ \/ /\ g_pc = "created"
          /\ \E h \in Handles :
               /\ g_fh' = h
               /\ GamesLoop(Append(g_log, Call("fopen", h, h)), h)
       \/ /\ g_pc = "suspended"
          /\ g_fh' = g_fh
          /\ GamesLoop(g_log, g_fh)
       \/ /\ g_pc = "done"
          /\ g_res' = "StopIteration"
          /\ UNCHANGED <<g_pc, g_fh, g_log, g_out>>
    /\ UNCHANGED <<fvars, pvars, dvars>>

\* gen.close(): GeneratorExit is raised at the yield the generator waits at
GamesClose ==
    /\ g_pc \in {"created", "suspended", "done"}
    /\ g_op' = [kind |-> "close", at |-> g_pc]
    /\ g_log' = IF g_pc = "suspended" THEN GamesExcept(g_log, g_fh) ELSE g_log
    /\ g_pc' = "done"
    /\ g_res' = "returned"
    /\ UNCHANGED <<g_fh, g_out, fvars, pvars, dvars>>

\* gen.throw(exc): exc is raised at the yield; a generator that has not started
\* or has ended raises it back to the caller
GamesThrow ==
    /\ g_pc \in {"created", "suspended", "done"}
    /\ g_op' = [kind |-> "throw", at |-> g_pc]
    /\ g_log' = IF g_pc = "suspended" THEN GamesExcept(g_log, g_fh) ELSE g_log
    /\ g_pc' = "done"
    /\ g_res' = IF g_pc = "suspended" THEN "StopIteration" ELSE "raised"
    /\ UNCHANGED <<g_fh, g_out, fvars, pvars, dvars>>

----------------------------------------------------------------------------
\* process_game(game_ptr, roster_visitor, roster_home).

\* What the native cwevent_process_game_record may do with the buffer at one
\* event: write the event's record, write an empty string, or write nothing.
NativeWrites == {"record", "empty", "nothing"}
Rosters == {None, "given"}

Space == [kind |-> "space", ev |-> 0]     \* b" ", the buffer as created
Empty == [kind |-> "empty", ev |-> 0]     \* b""
Record(k) == [kind |-> "record", ev |-> k]

GameRecords == UNION {[1..n -> NativeWrites] : n \in 0..MaxEvents}

\* the buffer after the native call at event k
cwevent_process_game_record(w, k, buf) ==
    CASE w = "record" -> Record(k)
      [] w = "empty" -> Empty
      [] w = "nothing" -> buf

\* if not roster: logging.warn(...); roster = pointer(CWRoster())
RosterOrEmpty(r) == IF r = None THEN "empty" ELSE r

\* The while loop from its test on, up to the next yield or the loop's end.
RECURSIVE ProcessLoop(_, _, _, _)
ProcessLoop(pos, buf, bufs, log) ==
    IF pos > Len(p_game)
    THEN [pc |-> "done", pos |-> pos, buf |-> buf, bufs |-> bufs, log |-> log, yielded |-> <<>>]
    ELSE LET b  == cwevent_process_game_record(p_game[pos], pos, buf)
             l2 == log \o <<"cwevent_process_game_record", "cw_gameiter_next">>
             b2 == Append(bufs, b)
         IN  IF b # Empty
             THEN [pc |-> "suspended", pos |-> pos + 1, buf |-> b, bufs |-> b2, log |-> l2,
                   yielded |-> <<[ev |-> pos, rec |-> b]>>]
             ELSE ProcessLoop(pos + 1, b, b2, l2)

\* process_game(game_ptr, rv, rh): the call itself runs none of the body
ProcessGameCall(game, rv, rh) ==
    /\ p_pc = "none"
    /\ p_pc' = "created"
    /\ p_game' = game
    /\ p_rosters' = [visitor |-> rv, home |-> rh]
    /\ UNCHANGED <<p_pos, p_warn, event_str, p_bufs, p_log, p_out, fvars, gvars, dvars>>

ProcessResume(pos, buf, bufs, log) ==
    LET r == ProcessLoop(pos, buf, bufs, log)
    IN  /\ p_pc' = r.pc
        /\ p_pos' = r.pos
        /\ event_str' = r.buf
        /\ p_bufs' = r.bufs
        /\ p_log' = r.log
        /\ p_out' = p_out \o r.yielded

\* next(gen)
ProcessNext ==
    /\ \/ /\ p_pc = "created"
          /\ p_warn' = Cardinality({k \in DOMAIN p_rosters : p_rosters[k] = None})
          /\ p_rosters' = [k \in DOMAIN p_rosters |-> RosterOrEmpty(p_rosters[k])]
          /\ ProcessResume(1, Space, <<>>, Append(p_log, "cw_gameiter_create"))
          /\ UNCHANGED p_game
       \/ /\ p_pc = "suspended"
          /\ ProcessResume(p_pos, event_str, p_bufs, p_log)
          /\ UNCHANGED <<p_game, p_rosters, p_warn>>
    /\ UNCHANGED <<fvars, gvars, dvars>>

\* One constructed instance over tables whose rows all carry different
\* headers, as the constructor left them.
RowNames == <<"A", "B", "C", "D", "E", "F", "G", "H">>

OneInstance ==
    /\ cwevent_field_data = SubSeq(RowNames, 1, MaxFields)
    /\ cwevent_ext_field_data = SubSeq(RowNames, MaxFields + 1, MaxFields + MaxExtFields)
    /\ objs = {"c1"}
    /\ dll = [i \in Instances |-> IF i = "c1" THEN Lib ELSE None]
    /\ loads = [i \in Instances |-> IF i = "c1" THEN 1 ELSE 0]
    /\ last = [op |-> "init", obj |-> "c1", name |-> None, value |-> 1, warned |-> FALSE]

AllSet ==
    /\ fields = set_all_headers([i \in 1..MaxFields |-> 0], [i \in 1..MaxExtFields |-> 0]).fields
    /\ ext_fields = set_all_headers([i \in 1..MaxFields |-> 0], [i \in 1..MaxExtFields |-> 0]).ext_fields

InitIter == OneInstance /\ AllSet /\ GamesIdle /\ ProcessIdle /\ DictIdle

NextIter ==
    \/ GamesCall
    \/ GamesNext
    \/ GamesClose
    \/ GamesThrow
    \/ \E game \in GameRecords, rv \in Rosters, rh \in Rosters : ProcessGameCall(game, rv, rh)
    \/ ProcessNext

SpecIter == InitIter /\ [][NextIter]_vars

----------------------------------------------------------------------------
\* dicticize_event_string(event_bytes, headers).  A byte record is a sequence
\* of byte values; a str is a sequence of one-character strings.

Comma == 44
Quote == 34
\* the bytes a record is made of here: the comma, the double quote and "a"
Bytes == {Comma, Quote, 97}

\* bytes.decode() on these ASCII bytes
Chr(b) == CASE b = Comma -> "," [] b = Quote -> "\"" [] b = 97 -> "a"

decode(bs) == [i \in 1..Len(bs) |-> Chr(bs[i])]

\* a split that takes a comma between two quotes as part of the field
RECURSIVE SplitQuoted(_, _, _)
SplitQuoted(str, cur, inq) ==
    IF str = <<>> THEN <<cur>>
    ELSE IF Head(str) = "," /\ ~inq THEN <<cur>> \o SplitQuoted(Tail(str), <<>>, inq)
    ELSE SplitQuoted(Tail(str), Append(cur, Head(str)),
                     IF Head(str) = "\"" THEN ~inq ELSE inq)

split_quoted(str) == SplitQuoted(str, <<>>, FALSE)

\* str.split(","): cut at every comma
RECURSIVE Split(_, _)
Split(str, cur) ==
    IF str = <<>> THEN <<cur>>
    ELSE IF Head(str) = "," THEN <<cur>> \o Split(Tail(str), <<>>)
    ELSE Split(Tail(str), Append(cur, Head(str)))

split(str) == Split(str, <<>>)

\* event_item.replace('"', "")
RECURSIVE replace_quotes(_)
replace_quotes(item) ==
    IF item = <<>> THEN <<>>
    ELSE (IF Head(item) = "\"" THEN <<>> ELSE <<Head(item)>>) \o replace_quotes(Tail(item))

listicize_event_string(bs) ==
    LET items == split(decode(bs))
    IN  [i \in 1..Len(items) |-> replace_quotes(items[i])]

\* dict(zip(keys, items)): pairs up to the shorter length, a later pair
\* replacing an earlier one with the same key
dict_zip(keys, items) ==
    LET n == IF Len(keys) < Len(items) THEN Len(keys) ELSE Len(items)
    IN  [k \in {keys[i] : i \in 1..n} |->
            items[CHOOSE i \in 1..n : keys[i] = k /\ \A j \in 1..n : keys[j] = k => j <= i]]

\* The headers argument: omitted (None) or a list.
Omitted == [none |-> TRUE, list |-> <<>>]
Given(l) == [none |-> FALSE, list |-> l]

dicticize_event_string(bs, headers) ==
    dict_zip(IF headers.none THEN active_headers(fields, ext_fields) ELSE headers.list,
             listicize_event_string(bs))

ByteStrings == UNION {[1..n -> Bytes] : n \in 0..MaxBytes}

HeaderLists == UNION {[1..n -> {"A", "B", "C"}] : n \in 0..MaxHeaders}

\* a call with headers omitted, under any flags, or with an explicit list
InitDict ==
    /\ OneInstance /\ GamesIdle /\ ProcessIdle
    /\ event_bytes \in ByteStrings
    /\ \/ /\ d_headers = Omitted
          /\ fields \in [1..MaxFields -> NativeFlags]
          /\ ext_fields \in [1..MaxExtFields -> NativeFlags]
       \/ /\ d_headers \in {Given(l) : l \in HeaderLists}
          /\ AllSet
    /\ d_pc = "called"
    /\ d_result = None

Dicticize ==
    /\ d_pc = "called"
    /\ d_pc' = "returned"
    /\ d_result' = dicticize_event_string(event_bytes, d_headers)
    /\ UNCHANGED <<event_bytes, d_headers, fvars, gvars, pvars>>

NextDict == Dicticize

SpecDict == InitDict /\ [][NextDict]_vars

----------------------------------------------------------------------------
\* Properties of the flag tables and the library handle.

SetterOps == {"set_event_field", "unset_event_field", "set_event_field_value"}

Recognised(name) == Contains(cwevent_field_data \o cwevent_ext_field_data, name)

\* the smallest row of table t that holds name
FirstRow(t, name) ==
    CHOOSE i \in DOMAIN t : t[i] = name /\ \A j \in DOMAIN t : t[j] = name => i <= j

\* C3: a setter called with a name in neither table logs a warning, completes
\* and leaves every flag of both arrays as it was.
C3_UnknownNameSkipped ==
    [][(last'.op \in SetterOps /\ ~Recognised(last'.name))
         => (last'.warned /\ fields' = fields /\ ext_fields' = ext_fields)]_vars

C3_Witness ==
    /\ last.op \in SetterOps
    /\ last.name = "Z"
    /\ last.value = 0
    /\ last.warned
    /\ \E i \in DOMAIN fields : fields[i] = 1

AllFlags == fields \o ext_fields

AllRows == cwevent_field_data \o cwevent_ext_field_data

OnRows == {i \in DOMAIN AllFlags : AllFlags[i] = 1}

\* the k-th smallest row whose flag is 1
KthOn(k) == CHOOSE p \in OnRows : Cardinality({q \in OnRows : q < p}) = k - 1

\* C7: active_headers lists exactly the rows whose flag is 1, standard rows
\* first, in table order (so it is a subsequence of all_headers); a row whose
\* flag holds another nonzero value is not listed.
C7_ActiveHeaders ==
    LET ah == active_headers(fields, ext_fields)
    IN  /\ Len(ah) = Cardinality(OnRows)
        /\ \A k \in 1..Len(ah) : ah[k] = AllRows[KthOn(k)]

C7_Witness ==
    /\ last.op = "set_event_field_value"
    /\ last.value = 2
    /\ \E i \in DOMAIN fields : fields[i] = 2
    /\ \E j \in DOMAIN ext_fields : ext_fields[j] = 1
    /\ \E i \in DOMAIN fields : fields[i] = 1
    /\ Len(active_headers(fields, ext_fields)) = 2

\* what a setter called with a recognised name may change
C8_Frame ==
    LET n == last'.name
        v == last'.value
    IN  IF Contains(cwevent_field_data, n)
        THEN /\ fields'[FirstRow(cwevent_field_data, n)] = v
             /\ \A j \in DOMAIN fields : j # FirstRow(cwevent_field_data, n) => fields'[j] = fields[j]
             /\ ext_fields' = ext_fields
        ELSE /\ ext_fields'[FirstRow(cwevent_ext_field_data, n)] = v
             /\ \A j \in DOMAIN ext_fields :
                   j # FirstRow(cwevent_ext_field_data, n) => ext_fields'[j] = ext_fields[j]
             /\ fields' = fields

\* setting twice is setting once; unsetting after setting leaves the flag 0
C8_SetTwice ==
    \A n \in FieldNames :
        LET r1 == set_event_field(fields, ext_fields, n)
            r2 == set_event_field(r1.fields, r1.ext_fields, n)
            u  == unset_event_field(r1.fields, r1.ext_fields, n)
        IN  /\ r2 = r1
            /\ Contains(cwevent_field_data, n) => u.fields[FirstRow(cwevent_field_data, n)] = 0
            /\ (~Contains(cwevent_field_data, n) /\ Contains(cwevent_ext_field_data, n))
                  => u.ext_fields[FirstRow(cwevent_ext_field_data, n)] = 0

\* C8: a setter called with a recognised name writes its value to one flag, the
\* first row of the name in the standard table if it is there and otherwise its
\* first row in the extended table, and changes no other flag; so setting twice
\* is setting once, and unsetting after setting leaves the flag 0.
C8_OneFlagWritten ==
    /\ [][(last'.op \in SetterOps /\ Recognised(last'.name)) => C8_Frame]_vars
    /\ [](C8_SetTwice)
    /\ [](last.op = "set_event_field" => last.value = 1)
    /\ [](last.op = "unset_event_field" => last.value = 0)

\* a name in both tables was just given the value 2: only its standard flag holds it
C8_Witness ==
    /\ last.op = "set_event_field_value"
    /\ last.value = 2
    /\ Contains(cwevent_field_data, last.name)
    /\ Contains(cwevent_ext_field_data, last.name)
    /\ cwevent_field_data[1] = cwevent_field_data[2]
    /\ fields[1] = 2
    /\ \A j \in DOMAIN ext_fields : ext_fields[j] # 2

\* C9 (as claimed): right after a constructor every flag of both arrays is 1
\* and active_headers is all_headers, whatever the flags held before and
\* whether or not a header name repeats.
C9_AllFlagsSetAfterInit ==
    last.op = "init" =>
        /\ \A i \in DOMAIN fields : fields[i] = 1
        /\ \A j \in DOMAIN ext_fields : ext_fields[j] = 1
        /\ active_headers(fields, ext_fields) = all_headers

\* C5 (as claimed): the constructor leaves the library unloaded; the first
\* later access loads it, at most once.
C5_LazyLoad ==
    \A i \in Instances :
        /\ (last.op = "init" /\ last.obj = i) => (dll[i] = None /\ loads[i] = 0)
        /\ loads[i] <= 1

\* C5 (amended): the constructor loads the library; every instance holds a
\* handle from its construction on and no later access loads again.
C5_LoadedOnceByInit ==
    \A i \in Instances :
        IF i \in objs THEN dll[i] = Lib /\ loads[i] = 1
                      ELSE dll[i] = None /\ loads[i] = 0

C5_Witness ==
    /\ objs = Instances
    /\ last.op \in SetterOps
    /\ \A i \in Instances : loads[i] = 1

----------------------------------------------------------------------------
\* Properties of games().

Opened == {g_log[i].ret : i \in {j \in DOMAIN g_log : g_log[j].call = "fopen"}}

Closes(h) == Cardinality({i \in DOMAIN g_log : g_log[i].call = "fclose" /\ g_log[i].h = h})

EofReported == \E i \in DOMAIN g_log : g_log[i].call = "feof" /\ g_log[i].ret = "1"

ReadRaised == \E i \in DOMAIN g_log : g_log[i].call = "cw_game_read" /\ g_log[i].ret = "raise"

\* C1 (as claimed): once feof has reported end-of-file and the iteration has
\* ended, every handle fopen returned has been passed to fclose exactly once.
C1_ClosedAtEndOfFile ==
    (g_pc = "done" /\ EofReported) => \A h \in Opened : Closes(h) = 1

\* the consumer's last request raised a failure inside the try block
FailedInIteration ==
    \/ g_op.kind \in {"close", "throw"} /\ g_op.at = "suspended"
    \/ g_op.kind = "next" /\ g_op.at \in {"created", "suspended"} /\ ReadRaised

\* C2: when cw_game_read raises, or a failure is thrown in at the yield (close()
\* included), games() closes the handle, yields nothing more and ends; the
\* caller sees the iteration end, not the failure.
C2_FailureClosesAndStops ==
    /\ [](FailedInIteration =>
            /\ g_pc = "done"
            /\ g_res \in {"StopIteration", "returned"}
            /\ Closes(g_fh) = 1
            /\ g_log[Len(g_log)] = Call("fclose", g_fh, "0"))
    /\ [][(g_pc # "done" /\ FailedInIteration') => g_out' = g_out]_vars
    /\ [][g_pc = "done" => (g_pc' = "done" /\ g_out' = g_out /\ g_log' = g_log)]_vars

C2_Witness ==
    /\ g_op = [kind |-> "close", at |-> "suspended"]
    /\ Len(g_out) = 1
    /\ g_pc = "done"
    /\ Closes(g_fh) = 1

\* C6: calling games() or process_game() makes no native call; with k games
\* produced exactly k reads have been made, the k-th returning the k-th game;
\* every read directly follows an feof on its handle that returned 0, and no
\* read follows an feof that returned nonzero.
C6_LazySequences ==
    /\ g_pc \in {"none", "created"} => g_log = <<>>
    /\ p_pc \in {"none", "created"} => p_log = <<>>
    /\ g_pc = "suspended" => Reads(g_log) = Len(g_out)
    /\ \A k \in DOMAIN g_out :
          \E i \in DOMAIN g_log :
             /\ g_log[i] = Call("cw_game_read", g_fh, g_out[k])
             /\ Reads(SubSeq(g_log, 1, i)) = k
    /\ \A i \in DOMAIN g_log :
          g_log[i].call = "cw_game_read" =>
             (i > 1 /\ g_log[i - 1] = Call("feof", g_log[i].h, "0"))
    /\ \A i \in DOMAIN g_log, j \in DOMAIN g_log :
          (i < j /\ g_log[i].call = "feof" /\ g_log[i].ret = "1")
             => g_log[j].call # "cw_game_read"

C6_Witness ==
    /\ g_pc = "suspended"
    /\ Len(g_out) = 2
    /\ Reads(g_log) = 2
    /\ p_pc = "created"
    /\ p_log = <<>>

----------------------------------------------------------------------------
\* Properties of process_game().

Count(log, x) == Cardinality({i \in DOMAIN log : log[i] = x})

\* C10 (as claimed): driven to exhaustion over a game of n events, process_game
\* calls cwevent_process_game_record n times, each followed by one
\* cw_gameiter_next, yields for exactly the events that left the buffer
\* non-empty, and every mapping it yields is the record the native call wrote
\* for that event; missing rosters are replaced by empty ones with a warning.
C10_EachYieldIsItsEventsRecord ==
    p_pc = "done" =>
        LET n == Len(p_game)
        IN  /\ Count(p_log, "cwevent_process_game_record") = n
            /\ Count(p_log, "cw_gameiter_next") = n
            /\ Len(p_log) = 2 * n + 1
            /\ \A i \in DOMAIN p_log :
                  p_log[i] = "cwevent_process_game_record" =>
                     (i < Len(p_log) /\ p_log[i + 1] = "cw_gameiter_next")
            /\ Len(p_out) <= n
            /\ {p_out[k].ev : k \in DOMAIN p_out} = {e \in 1..n : p_bufs[e] # Empty}
            /\ p_warn <= 2
            /\ \A k \in DOMAIN p_rosters : p_rosters[k] # None
            /\ \A k \in DOMAIN p_out : p_out[k].rec = Record(p_out[k].ev)

----------------------------------------------------------------------------
\* Properties of dicticize_event_string().

Min(a, b) == IF a < b THEN a ELSE b

Commas == {p \in DOMAIN event_bytes : event_bytes[p] = Comma}

\* where the k-th item ends: at the k-th comma, or past the record's end
Cut(k) ==
    IF k = 0 THEN 0
    ELSE IF k > Cardinality(Commas) THEN Len(event_bytes) + 1
    ELSE CHOOSE p \in Commas : Cardinality({q \in Commas : q < p}) = k - 1

\* the k-th item: the characters between two cuts, double quotes left out
Item(k) ==
    SelectSeq(decode(SubSeq(event_bytes, Cut(k - 1) + 1, Cut(k) - 1)), LAMBDA c : c # "\"")

UsedHeaders == IF d_headers.none THEN active_headers(fields, ext_fields) ELSE d_headers.list

Distinct(hs) == \A i \in DOMAIN hs, j \in DOMAIN hs : hs[i] = hs[j] => i = j

\* C4: with pairwise-distinct headers the mapping has min(len(headers),
\* commas + 1) entries and maps the i-th header to the i-th item, an item being
\* what lies between two commas (quoted or not) without its double quotes;
\* headers omitted means the active headers.
C4_SplitAndZip ==
    (d_pc = "returned" /\ Distinct(UsedHeaders)) =>
        LET n == Min(Len(UsedHeaders), Cardinality(Commas) + 1)
        IN  /\ Cardinality(DOMAIN d_result) = n
            /\ \A i \in 1..n : d_result[UsedHeaders[i]] = Item(i)

\* the record ",", quoted: two items, both empty once the quotes are dropped
C4_Witness ==
    /\ d_pc = "returned"
    /\ event_bytes = <<Quote, Comma, Quote>>
    /\ d_headers = Given(<<"B", "A">>)
    /\ d_result["A"] = <<>>
    /\ d_result["B"] = <<>>

====
